---- MODULE Spec2Model ----
(***************************************************************************)
(* Monthly solar-savings simulation: simular_solar (main.py) and its three *)
(* callers (a direct call, the command line of main.py, the Streamlit      *)
(* "Simular" button of app.py).                                            *)
(*                                                                         *)
(* Python floats are modelled as exact rationals <<n, d>> (d > 0, lowest   *)
(* terms); round(x, k) is round-half-to-even at k decimals.                *)
(***************************************************************************)
EXTENDS Integers, Sequences, FiniteSets, TLC

(* Longest horizon, in years, that a scenario asks for. *)
MaxAnos == 2

----------------------------------------------------------------------------
(* Arithmetic of the float expressions of main.py, on exact rationals.     *)
(* An operator that uses an argument more than once first binds its value  *)
(* (x \in {x0}), so that a nested expression is evaluated once, not once   *)
(* per use.                                                                *)

Abs(n) == IF n < 0 THEN -n ELSE n

RECURSIVE GCD(_, _)
GCD(a0, b0) ==
    CHOOSE r \in { IF b = 0 THEN a ELSE GCD(b, a % b) : a \in {a0}, b \in {b0} } : TRUE

Norm(n0, d0) ==
    CHOOSE r \in { IF n = 0 THEN <<0, 1>>
                   ELSE <<n \div g, d \div g>> :
                   n \in {n0}, d \in {d0}, g \in {GCD(Abs(n0), d0)} } : TRUE

R(n) == <<n, 1>>

Frac(n, d) == Norm(n, d)

RAdd(a0, b0) ==
    CHOOSE r \in { LET l == (a[2] \div GCD(a[2], b[2])) * b[2]
                   IN  Norm(a[1] * (l \div a[2]) + b[1] * (l \div b[2]), l) :
                   a \in {a0}, b \in {b0} } : TRUE

RNeg(a0) == CHOOSE r \in { <<-a[1], a[2]>> : a \in {a0} } : TRUE

RSub(a, b) == RAdd(a, RNeg(b))

RMul(a0, b0) ==
    CHOOSE r \in { IF a[1] = 0 \/ b[1] = 0 THEN <<0, 1>>
                   ELSE LET g1 == GCD(Abs(a[1]), b[2])
                            g2 == GCD(Abs(b[1]), a[2])
                        IN  <<(a[1] \div g1) * (b[1] \div g2),
                              (a[2] \div g2) * (b[2] \div g1)>> :
                   a \in {a0}, b \in {b0} } : TRUE

RDivInt(a0, k) == CHOOSE r \in { Norm(a[1], a[2] * k) : a \in {a0} } : TRUE

RLt(a, b) == RSub(a, b)[1] < 0

RLeq(a, b) == RSub(a, b)[1] <= 0

(* Python's max(a, b) and min(a, b): the first argument wins a tie. *)
RMax(a0, b0) ==
    CHOOSE r \in { IF RLt(a, b) THEN b ELSE a : a \in {a0}, b \in {b0} } : TRUE

RMin(a0, b0) ==
    CHOOSE r \in { IF RLt(b, a) THEN b ELSE a : a \in {a0}, b \in {b0} } : TRUE

RECURSIVE RPow(_, _)
RPow(a, k) == IF k = 0 THEN <<1, 1>> ELSE RMul(a, RPow(a, k - 1))

RECURSIVE Pow10(_)
Pow10(k) == IF k = 0 THEN 1 ELSE 10 * Pow10(k - 1)

(* round(x, k): the nearest multiple of 10^-k, a tie going to the even one. *)
Round(x, k) ==
    CHOOSE r \in { LET q   == y[1] \div y[2]
                       rem == y[1] - q * y[2]
                       up  == \/ 2 * rem > y[2]
                              \/ (2 * rem = y[2] /\ q % 2 = 1)
                   IN  Norm(IF up THEN q + 1 ELSE q, Pow10(k)) :
                   y \in {RMul(x, <<Pow10(k), 1>>)} } : TRUE

----------------------------------------------------------------------------
(* Tables and defaults of simular_solar. *)

(* Default values of the parameters of simular_solar. *)
Defaults ==
    [ tarifa_inicial         |-> Frac(973, 1000),
      fio_b_inicial          |-> Frac(69568, 100000),
      geracao_mensal_media   |-> Frac(134664, 100),
      consumo_mensal         |-> Frac(123717, 100),
      perc_autoconsumo       |-> Frac(1, 5),
      valor_parcela          |-> R(750),
      meses_financiamento    |-> 72,
      anos_simulacao         |-> 10,
      reajuste_anual         |-> Frac(1, 10),
      custo_manutencao_anual |-> R(750),
      degradacao_anual       |-> Frac(5, 1000),
      ano_inicial            |-> 2026,
      usar_sazonalidade      |-> TRUE ]

(* The names simular_solar accepts as keyword arguments. *)
Signature == DOMAIN Defaults

(* Defaults of the command line's options, under the parameter each feeds. *)
CliDefaults ==
    [ tarifa_inicial         |-> Frac(973, 1000),
      fio_b_inicial          |-> Frac(69568, 100000),
      geracao_mensal_media   |-> Frac(134664, 100),
      consumo_mensal         |-> Frac(123717, 100),
      perc_autoconsumo       |-> Frac(1, 5),
      valor_parcela          |-> R(750),
      meses_financiamento    |-> 72,
      custo_manutencao_anual |-> R(750),
      anos_simulacao         |-> 10,
      reajuste_anual         |-> Frac(8, 100),
      degradacao_anual       |-> Frac(5, 1000),
      ano_inicial            |-> 2026,
      usar_sazonalidade      |-> FALSE ]

(* Fraction of Fio B charged per calendar year. *)
pagamento_fioB ==
    (2026 :> Frac(60, 100)) @@ (2027 :> Frac(75, 100)) @@ (2028 :> Frac(90, 100)) @@
    (2029 :> R(1)) @@ (2030 :> R(1)) @@ (2031 :> R(1))

(* Month-of-year generation multipliers, January first. *)
sazonalidade_mensal ==
    << Frac(125, 100), Frac(120, 100), Frac(110, 100), Frac(90, 100),
       Frac(75, 100),  Frac(70, 100),  Frac(75, 100),  Frac(85, 100),
       Frac(95, 100),  Frac(105, 100), Frac(115, 100), Frac(125, 100) >>

----------------------------------------------------------------------------
(* The expressions of the loop body, one operator each. *)

(* range(1, anos_simulacao * 12 + 1) iterates mes = 1 .. NumMeses. *)
NumMeses_SemUltimo(p) == p.anos_simulacao * 12 - 1

NumMeses(p) == p.anos_simulacao * 12

DeveReajustar_Mes1(mes) == (mes - 1) % 12 = 0

DeveReajustar(mes) == mes > 1 /\ (mes - 1) % 12 = 0

FracaoFioB_SemPadrao(ano) ==
    IF ano \in DOMAIN pagamento_fioB THEN pagamento_fioB[ano] ELSE R(0)

(* pagamento_fioB.get(ano, 1.00) *)
FracaoFioB(ano) ==
    IF ano \in DOMAIN pagamento_fioB THEN pagamento_fioB[ano] ELSE R(1)

GeracaoMensal(p, mes) ==
    LET anos_passados == (mes - 1) \div 12
        mes_do_ano    == ((mes - 1) % 12) + 1
        geracao_base  == RMul(p.geracao_mensal_media,
                              RPow(RSub(R(1), p.degradacao_anual), anos_passados))
    IN  IF p.usar_sazonalidade
        THEN RMul(geracao_base, sazonalidade_mensal[mes_do_ano])
        ELSE geracao_base

EnergiaInjetada_SemMax(geracao_mensal, auto_consumo) ==
    RSub(geracao_mensal, auto_consumo)

EnergiaInjetada_TodaGeracao(geracao_mensal, auto_consumo) ==
    RMax(R(0), geracao_mensal)

EnergiaInjetada(geracao_mensal, auto_consumo) ==
    RMax(R(0), RSub(geracao_mensal, auto_consumo))

EnergiaCompensada_SemMin(consumo_rede, saldo) == consumo_rede

EnergiaCompensada(consumo_rede, saldo) == RMin(consumo_rede, saldo)

EnergiaCompradaRede_Total(consumo_rede, energia_compensada) == consumo_rede

EnergiaCompradaRede(consumo_rede, energia_compensada) ==
    RSub(consumo_rede, energia_compensada)

FluxoLiquido_SemCompraRede(economia, parcela, manutencao, custo_rede) ==
    RSub(RSub(economia, parcela), manutencao)

FluxoLiquido(economia, parcela, custo_manutencao_mensal, custo_energia_rede) ==
    RSub(RSub(RSub(economia, parcela), custo_manutencao_mensal),
         custo_energia_rede)

Parcela_Estrito(p, mes) ==
    IF mes < p.meses_financiamento THEN p.valor_parcela ELSE R(0)

Parcela(p, mes) ==
    IF mes <= p.meses_financiamento THEN p.valor_parcela ELSE R(0)

(* One step of the running total: the previous total plus x, appended. *)
Acumula(prev0, x) ==
    CHOOSE r \in { Append(prev, IF prev = <<>> THEN x
                                ELSE RAdd(prev[Len(prev)], x)) :
                   prev \in {prev0} } : TRUE

RECURSIVE Cumsum_SemPrimeiro(_)
Cumsum_SemPrimeiro(s0) ==
    CHOOSE r \in { IF Len(s) <= 1 THEN [i \in 1..Len(s) |-> R(0)]
                   ELSE Acumula(Cumsum_SemPrimeiro(SubSeq(s, 1, Len(s) - 1)),
                                s[Len(s)]) :
                   s \in {s0} } : TRUE

(* Series.cumsum(): running totals, left to right. *)
RECURSIVE Cumsum(_)
Cumsum(s0) ==
    CHOOSE r \in { IF s = <<>> THEN <<>>
                   ELSE Acumula(Cumsum(SubSeq(s, 1, Len(s) - 1)), s[Len(s)]) :
                   s \in {s0} } : TRUE

----------------------------------------------------------------------------
(* Scenarios: the arguments a caller supplies. *)

BaseArgs ==
    [ tarifa_inicial         |-> R(1),
      fio_b_inicial          |-> Frac(1, 2),
      geracao_mensal_media   |-> R(1000),
      consumo_mensal         |-> R(1000),
      perc_autoconsumo       |-> Frac(1, 5),
      valor_parcela          |-> R(750),
      meses_financiamento    |-> 7,
      anos_simulacao         |-> 1,
      reajuste_anual         |-> Frac(1, 10),
      custo_manutencao_anual |-> R(100),
      degradacao_anual       |-> Frac(1, 10),
      ano_inicial            |-> 2026 ]

(* Generation against consumption, with fractions outside [0,1] and        *)
(* horizons of no month at all.                                            *)
EnergyArgs ==
    { [BaseArgs EXCEPT !.geracao_mensal_media = g, !.perc_autoconsumo = a,
                       !.degradacao_anual = d, !.anos_simulacao = y] :
        g \in {R(500), R(1000), R(1500)},
        a \in {Frac(-1, 2), R(0), Frac(1, 5), R(1), Frac(3, 2)},
        d \in {R(0), Frac(1, 10)},
        y \in {-1, 0, 1, MaxAnos} }

(* Financing terms inside, beyond and below the horizon. *)
FinanceArgs ==
    { [BaseArgs EXCEPT !.valor_parcela = v, !.meses_financiamento = n,
                       !.custo_manutencao_anual = c, !.anos_simulacao = y] :
        v \in {R(0), R(750)},
        n \in {-1, 0, 7, 12, 100},
        c \in {R(0), R(100)},
        y \in {0, 1, MaxAnos} }

(* Tariffs, escalation rates and start years around the Fio B table. *)
TariffArgs ==
    { [BaseArgs EXCEPT !.tarifa_inicial = t[1], !.fio_b_inicial = t[2],
                       !.reajuste_anual = r, !.ano_inicial = a,
                       !.anos_simulacao = y] :
        t \in {<<R(1), R(0)>>, <<Frac(973, 1000), Frac(1, 2)>>},
        r \in {R(-1), R(0), Frac(1, 10)},
        a \in {2025, 2027, 2030, 2034},
        y \in 1 .. MaxAnos }

(* Generation equal to consumption, nothing to pay, nothing varying. *)
BalancedArgs ==
    { ("usar_sazonalidade" :> FALSE) @@
      [BaseArgs EXCEPT !.tarifa_inicial = t, !.fio_b_inicial = R(0),
                       !.valor_parcela = v,
                       !.reajuste_anual = R(0), !.custo_manutencao_anual = R(0),
                       !.degradacao_anual = R(0), !.perc_autoconsumo = a,
                       !.anos_simulacao = y] :
        t \in {R(1), Frac(973, 1000)},
        v \in {R(0), R(750)},
        a \in {R(0), Frac(1, 2), R(1)},
        y \in 1 .. MaxAnos }

(* The seasonality flag is passed as True, as False, or not at all. *)
EngineArgs ==
    EnergyArgs \cup FinanceArgs \cup TariffArgs \cup BalancedArgs
    \cup { ("usar_sazonalidade" :> b) @@ a :
             a \in {e \in EnergyArgs : e.degradacao_anual # R(0)}, b \in BOOLEAN }

(* What the command line is given: options, and --sazonalidade or not. *)
CliArgs ==
    { [a EXCEPT !.anos_simulacao = 1] : a \in TariffArgs }
    \cup { ("usar_sazonalidade" :> TRUE) @@ BaseArgs }

(* Values of the sidebar widgets of app.py when "Simular" is pressed. *)
AppWidgets ==
    [ tarifa : {R(1)}, fio_b : {Frac(1, 2)}, geracao : {R(1000)},
      consumo : {R(1000)}, autoconsumo : {Frac(20, 100)},
      valor_sistema : {R(28000)}, entrada : {R(0), R(1000), R(28000)},
      taxa_juros_mensal : {R(0)}, meses_financ : {12, 72},
      manutencao : {R(750)}, anos : 1 .. MaxAnos, reajuste : {Frac(10, 100)},
      degradacao : {Frac(5, 1000)}, sazonalidade : BOOLEAN ]

----------------------------------------------------------------------------
VARIABLES
    caller,          \* who calls simular_solar: "direct", "cli" or "app"
    userArgs,        \* what the caller's user supplied
    pc,              \* "start", "for", "consume", "returned", "raised"
    exc,             \* the exception raised, or "none"
    params,          \* the bound parameters of simular_solar
    mes,             \* the loop index
    tarifa,
    fio_b,
    saldo_creditos,
    loc,             \* the other locals of the current iteration
    dados,           \* the list of month records
    df               \* the returned frame: dados plus the Acumulado column

vars == <<caller, userArgs, pc, exc, params, mes, tarifa, fio_b,
          saldo_creditos, loc, dados, df>>

Unbound == [unbound |-> TRUE]

Init ==
    /\ caller \in {"direct", "cli", "app"}
    /\ userArgs \in CASE caller = "app" -> AppWidgets
                      [] caller = "cli" -> CliArgs
                      [] OTHER          -> EngineArgs
    /\ pc = "start"
    /\ exc = "none"
    /\ params = Unbound
    /\ mes = 0
    /\ tarifa = R(0)
    /\ fio_b = R(0)
    /\ saldo_creditos = R(0)
    /\ loc = Unbound
    /\ dados = <<>>
    /\ df = <<>>

(* Entry of simular_solar with keywords: one the signature lacks raises  *)
(* TypeError; a parameter not passed takes its default; then lines 61-66.  *)
Enter(kwargs) ==
    IF DOMAIN kwargs \subseteq Signature
    THEN /\ params' = kwargs @@ Defaults
         /\ pc' = "for"
         /\ exc' = "none"
         /\ mes' = 1
         /\ tarifa' = (kwargs @@ Defaults).tarifa_inicial
         /\ fio_b' = (kwargs @@ Defaults).fio_b_inicial
         /\ saldo_creditos' = R(0)
         /\ dados' = <<>>
    ELSE /\ pc' = "raised"
         /\ exc' = "TypeError"
         /\ UNCHANGED <<params, mes, tarifa, fio_b, saldo_creditos, dados>>

(* A caller that imports simular_solar and passes userArgs as keywords. *)
CallDirect ==
    /\ pc = "start"
    /\ caller = "direct"
    /\ Enter(userArgs)
    /\ UNCHANGED <<caller, userArgs, loc, df>>

(* main(): argparse fills every option and all thirteen are passed on. *)
CliMain ==
    /\ pc = "start"
    /\ caller = "cli"
    /\ Enter(userArgs @@ CliDefaults)
    /\ UNCHANGED <<caller, userArgs, loc, df>>

(* The keywords the "Simular" button passes to simular_solar. *)
AppKwargs(w) ==
    [ tarifa_inicial         |-> w.tarifa,
      fio_b_inicial          |-> w.fio_b,
      geracao_mensal_media   |-> w.geracao,
      consumo_mensal         |-> w.consumo,
      perc_autoconsumo       |-> w.autoconsumo,
      valor_sistema          |-> w.valor_sistema,
      entrada                |-> w.entrada,
      taxa_juros_anual       |-> RSub(RPow(RAdd(R(1), w.taxa_juros_mensal), 12), R(1)),
      meses_financiamento    |-> w.meses_financ,
      anos_simulacao         |-> w.anos,
      reajuste_anual         |-> w.reajuste,
      custo_manutencao_anual |-> w.manutencao,
      degradacao_anual       |-> w.degradacao,
      usar_sazonalidade      |-> w.sazonalidade ]

(* The "Simular" button of app.py. The exception ends the script run, so    *)
(* session_state['df'] is not set and nothing below line 84 renders.        *)
AppSimular ==
    /\ pc = "start"
    /\ caller = "app"
    /\ Enter(AppKwargs(userArgs))
    /\ UNCHANGED <<caller, userArgs, loc, df>>

(* Lines 68-101: the head of an iteration up to crediting the ledger. *)
MonthCredit ==
    /\ pc = "for"
    /\ mes <= NumMeses(params)
    /\ LET ano             == params.ano_inicial + (mes - 1) \div 12
           anos_passados   == (mes - 1) \div 12
           mes_do_ano      == ((mes - 1) % 12) + 1
           fator           == RAdd(R(1), params.reajuste_anual)
           tarifa1         == IF DeveReajustar(mes) THEN RMul(tarifa, fator) ELSE tarifa
           fio_b1          == IF DeveReajustar(mes) THEN RMul(fio_b, fator) ELSE fio_b
           geracao_mensal  == GeracaoMensal(params, mes)
           p_fio_b         == FracaoFioB(ano)
           preco_credito   == RSub(tarifa1, RMul(fio_b1, p_fio_b))
           auto_consumo    == RMul(params.consumo_mensal, params.perc_autoconsumo)
           consumo_rede    == RSub(params.consumo_mensal, auto_consumo)
           energia_injetada == EnergiaInjetada(geracao_mensal, auto_consumo)
       IN  /\ tarifa' = tarifa1
           /\ fio_b' = fio_b1
           /\ saldo_creditos' = RAdd(saldo_creditos, energia_injetada)
           /\ loc' = [ ano |-> ano, anos_passados |-> anos_passados,
                       mes_do_ano |-> mes_do_ano,
                       geracao_mensal |-> geracao_mensal,
                       p_fio_b |-> p_fio_b, preco_credito |-> preco_credito,
                       auto_consumo |-> auto_consumo,
                       consumo_rede |-> consumo_rede,
                       energia_injetada |-> energia_injetada ]
    /\ pc' = "consume"
    /\ UNCHANGED <<caller, userArgs, exc, params, mes, dados, df>>

(* Lines 103-138: consuming the ledger, the money, and the month's record. *)
MonthConsume ==
    /\ pc = "consume"
    /\ LET energia_compensada    == EnergiaCompensada(loc.consumo_rede, saldo_creditos)
           saldo1                == RSub(saldo_creditos, energia_compensada)
           energia_comprada_rede == EnergiaCompradaRede(loc.consumo_rede,
                                                        energia_compensada)
           economia              == RAdd(RMul(loc.auto_consumo, tarifa),
                                         RMul(energia_compensada, loc.preco_credito))
           custo_energia_rede    == RMul(energia_comprada_rede, tarifa)
           parcela               == Parcela(params, mes)
           custo_manutencao_mensal == RDivInt(params.custo_manutencao_anual, 12)
           fluxo_liquido         == FluxoLiquido(economia, parcela,
                                                 custo_manutencao_mensal,
                                                 custo_energia_rede)
       IN  /\ saldo_creditos' = saldo1
           /\ loc' = [ energia_compensada |-> energia_compensada,
                       energia_comprada_rede |-> energia_comprada_rede,
                       economia |-> economia,
                       custo_energia_rede |-> custo_energia_rede,
                       parcela |-> parcela,
                       custo_manutencao_mensal |-> custo_manutencao_mensal,
                       fluxo_liquido |-> fluxo_liquido ] @@ loc
           /\ dados' = Append(dados,
                  [ Mes          |-> mes,
                    Ano          |-> loc.ano,
                    MesAno       |-> <<loc.mes_do_ano, loc.ano>>,
                    Geracao      |-> Round(loc.geracao_mensal, 2),
                    Consumo      |-> Round(params.consumo_mensal, 2),
                    SaldoCreditos |-> Round(saldo1, 2),
                    Tarifa       |-> Round(tarifa, 3),
                    PrecoCredito |-> Round(loc.preco_credito, 3),
                    Economia     |-> Round(economia, 2),
                    CompraRede   |-> Round(custo_energia_rede, 2),
                    Parcela      |-> parcela,
                    Manutencao   |-> Round(custo_manutencao_mensal, 2),
                    FluxoLiquido |-> Round(fluxo_liquido, 2) ])
    /\ mes' = mes + 1
    /\ pc' = "for"
    /\ UNCHANGED <<caller, userArgs, exc, params, tarifa, fio_b, df>>

(* Lines 140-143: pd.DataFrame(dados), the cumsum column, return. A frame   *)
(* built from an empty list has no columns, so selecting one is a KeyError. *)
BuildFrame ==
    /\ pc = "for"
    /\ mes > NumMeses(params)
    /\ IF dados = <<>>
       THEN /\ pc' = "raised"
            /\ exc' = "KeyError"
            /\ df' = df
       ELSE /\ pc' = "returned"
            /\ exc' = exc
            /\ df' = LET acum == Cumsum([i \in 1..Len(dados) |-> dados[i].FluxoLiquido])
                     IN  [i \in 1..Len(dados) |-> [Acumulado |-> acum[i]] @@ dados[i]]
    /\ UNCHANGED <<caller, userArgs, params, mes, tarifa, fio_b,
                   saldo_creditos, loc, dados>>

Next ==
    \/ CallDirect
    \/ CliMain
    \/ AppSimular
    \/ MonthCredit
    \/ MonthConsume
    \/ BuildFrame

Spec == Init /\ [][Next]_vars

(* The interpreter keeps running the call until it returns or raises. *)
FairSpec == Spec /\ WF_vars(Next)
----------------------------------------------------------------------------
(* Properties. *)

(* The month whose iteration is under way (between crediting and consuming). *)
NoMes == pc = "consume"

(* The parameter errors the specification lists: a term <= 0, a negative   *)
(* horizon, a fraction outside [0,1], an escalation rate <= -100%.         *)
ParametrosInvalidos(p) ==
    \/ p.meses_financiamento <= 0
    \/ p.anos_simulacao < 0
    \/ RLt(p.perc_autoconsumo, R(0)) \/ RLt(R(1), p.perc_autoconsumo)
    \/ RLt(p.degradacao_anual, R(0)) \/ RLt(R(1), p.degradacao_anual)
    \/ RLeq(p.reajuste_anual, R(-1))

(* C1: the credit balance is never negative, after the credit step and     *)
(* after the consume step of every month, whatever the parameters.         *)
C1_SaldoNuncaNegativo == saldo_creditos[1] >= 0

(* C1 witness: a later month whose generation is below the self-consumed   *)
(* energy has been credited (the clamp at zero is what acted).             *)
C1_Witness ==
    /\ NoMes
    /\ mes > 1
    /\ RLt(loc.geracao_mensal, loc.auto_consumo)
    /\ loc.energia_injetada = R(0)

(* C2: every recorded installment is the configured value for months up to *)
(* the financing term and exactly 0 for the months after it.               *)
C2_ParcelaAteOPrazo ==
    \A i \in 1..Len(dados) :
        dados[i].Parcela = IF dados[i].Mes <= userArgs.meses_financiamento
                           THEN userArgs.valor_parcela
                           ELSE <<0, 1>>

(* C2 witness: a finished run whose term ends inside the horizon, paying   *)
(* in the term's last month and nothing in the month after it.             *)
C2_Witness ==
    /\ pc = "returned"
    /\ userArgs.meses_financiamento \in 1..(Len(df) - 1)
    /\ userArgs.valor_parcela # R(0)
    /\ df[userArgs.meses_financiamento].Parcela = userArgs.valor_parcela
    /\ df[userArgs.meses_financiamento + 1].Parcela = R(0)

RECURSIVE SomaFluxo(_, _)
SomaFluxo(f, m) ==
    IF m = 0 THEN <<0, 1>> ELSE RAdd(SomaFluxo(f, m - 1), f[m].FluxoLiquido)

(* C3: in the returned frame the cumulative cash flow of month m is the    *)
(* sum of the recorded net cash flows of months 1..m.                      *)
C3_AcumuladoESoma ==
    pc = "returned" =>
        \A m \in 1..Len(df) : df[m].Acumulado = SomaFluxo(df, m)

(* C3 witness: a returned frame of more than a year whose final cumulative *)
(* value differs from the last month's own net cash flow.                  *)
C3_Witness ==
    /\ pc = "returned"
    /\ Len(df) > 12
    /\ df[Len(df)].Acumulado # df[Len(df)].FluxoLiquido
    /\ df[Len(df)].Acumulado = SomaFluxo(df, Len(df))

EmVigorNoMes(inicial, m) ==
    RMul(inicial, RPow(RAdd(R(1), params.reajuste_anual), (m - 1) \div 12))

InicioDeNovoAno(m) == m > 1 /\ m % 12 = 1

(* C4: tariff and wire fee are multiplied by (1 + escalation) exactly at   *)
(* months 13, 25, ... and at no other step, so the value in force at month *)
(* m is initial * (1 + escalation)^floor((m-1)/12), and neither decreases  *)
(* when the escalation is >= 0.                                            *)
C4_ReajusteAnual ==
    /\ [](NoMes => /\ tarifa = EmVigorNoMes(params.tarifa_inicial, mes)
                   /\ fio_b = EmVigorNoMes(params.fio_b_inicial, mes))
    /\ [][pc # "start" =>
            /\ IF pc = "for" /\ pc' = "consume" /\ InicioDeNovoAno(mes)
               THEN /\ tarifa' = RMul(tarifa, RAdd(R(1), params.reajuste_anual))
                    /\ fio_b' = RMul(fio_b, RAdd(R(1), params.reajuste_anual))
               ELSE /\ tarifa' = tarifa
                    /\ fio_b' = fio_b
            /\ RLeq(R(0), params.reajuste_anual) =>
                    /\ RLeq(tarifa, tarifa')
                    /\ RLeq(fio_b, fio_b')]_vars

(* C4 witness: month 13 under way with a non-zero escalation: tariff and   *)
(* wire fee have moved off their initial values.                           *)
C4_Witness ==
    /\ NoMes
    /\ mes = 13
    /\ params.reajuste_anual # R(0)
    /\ tarifa # params.tarifa_inicial
    /\ fio_b # params.fio_b_inicial

RunCompleto ==
    /\ pc = "returned"
    /\ Len(df) = userArgs.anos_simulacao * 12
    /\ \A i \in 1..Len(df) : df[i].Mes = i

(* C5: with valid parameters and a horizon of at least one year, the run   *)
(* ends by returning exactly years*12 records, months 1, 2, ... in order.  *)
C5_TerminaComTodosOsMeses ==
    (/\ pc = "for"
     /\ mes = 1
     /\ ~ParametrosInvalidos(params)
     /\ params.anos_simulacao >= 1) ~> RunCompleto

(* C5 witness: a run with valid parameters over two years or more has     *)
(* returned its full frame.                                                *)
C5_Witness ==
    /\ RunCompleto
    /\ ~ParametrosInvalidos(params)
    /\ Len(df) >= 24

(* C6: an invalid parameter makes the engine fail with InvalidParameter    *)
(* before the first month: the loop is never entered, no record exists.    *)
C6_ValidacaoAntesDoLaco ==
    (pc # "start" /\ caller # "app" /\ ParametrosInvalidos(userArgs)) =>
        /\ pc = "raised"
        /\ exc = "InvalidParameter"
        /\ dados = <<>>
        /\ df = <<>>

ValorFinanciado == RSub(userArgs.valor_sistema, userArgs.entrada)

(* C7: financing given as principal, down payment and monthly rate: the    *)
(* installment function gives 0 for a principal <= 0 and principal / term  *)
(* for a zero rate, and the engine pays that value in the term's months.   *)
C7_ParcelaCalculada ==
    (caller = "app" /\ pc # "start" /\ userArgs.taxa_juros_mensal = R(0)
        /\ userArgs.meses_financ > 0) =>
        /\ pc # "raised"
        /\ \A i \in 1..Len(dados) :
              dados[i].Mes <= userArgs.meses_financ =>
                 dados[i].Parcela =
                    IF RLeq(ValorFinanciado, R(0)) THEN <<0, 1>>
                    ELSE RDivInt(ValorFinanciado, userArgs.meses_financ)

(* C8: with a down payment configured, every record of the run carries the *)
(* cumulative cash flow minus the down payment.                            *)
C8_AcumuladoComEntrada ==
    (caller = "app" /\ pc # "start" /\ RLt(R(0), userArgs.entrada)) =>
        /\ pc # "raised"
        /\ pc = "returned" =>
              \A i \in 1..Len(df) :
                 /\ "AcumuladoComEntrada" \in DOMAIN df[i]
                 /\ df[i].AcumuladoComEntrada = RSub(df[i].Acumulado, userArgs.entrada)

FracaoTabelada(ano) ==
    CASE ano = 2026 -> <<3, 5>>
      [] ano = 2027 -> <<3, 4>>
      [] ano = 2028 -> <<9, 10>>
      [] OTHER      -> <<1, 1>>

(* C9: the Fio-B fraction of a month is the tabulated value of its         *)
(* calendar year, 1.00 outside the table, always within [0,1], and the     *)
(* credit price is tariff - wire fee * fraction.                           *)
C9_FracaoFioB ==
    NoMes =>
        /\ loc.ano = userArgs.ano_inicial + (mes - 1) \div 12
        /\ loc.p_fio_b = FracaoTabelada(loc.ano)
        /\ RLeq(R(0), loc.p_fio_b) /\ RLeq(loc.p_fio_b, R(1))
        /\ loc.preco_credito = RSub(tarifa, RMul(fio_b, loc.p_fio_b))

(* C9 witness: a month of 2035, past the table, charged the full fee.      *)
C9_Witness ==
    /\ NoMes
    /\ loc.ano = 2035
    /\ loc.p_fio_b = R(1)
    /\ fio_b # R(0)

SazonalidadeAtivada ==
    "usar_sazonalidade" \in DOMAIN userArgs /\ userArgs.usar_sazonalidade

(* C10: a run that does not explicitly enable seasonality generates        *)
(* mean * (1 - degradation)^floor((m-1)/12) in month m (factor 1.0).       *)
C10_SazonalidadeDesligadaPorPadrao ==
    (NoMes /\ caller # "app" /\ ~SazonalidadeAtivada) =>
        loc.geracao_mensal =
            RMul(userArgs.geracao_mensal_media,
                 RPow(RSub(R(1), userArgs.degradacao_anual), (mes - 1) \div 12))

(* A month has just ended: its locals and its record are the latest ones. *)
FimDoMes == pc = "for" /\ mes > 1

(* Generation equal to consumption, no wire fee, no escalation, no         *)
(* degradation, no seasonality, a self-consumption fraction within [0,1].  *)
EnergiaEquilibrada ==
    /\ params.geracao_mensal_media = params.consumo_mensal
    /\ params.fio_b_inicial = <<0, 1>>
    /\ params.reajuste_anual = <<0, 1>>
    /\ params.degradacao_anual = <<0, 1>>
    /\ ~params.usar_sazonalidade
    /\ RLeq(<<0, 1>>, params.perc_autoconsumo)
    /\ RLeq(params.perc_autoconsumo, <<1, 1>>)

SemCustos ==
    /\ params.custo_manutencao_anual = <<0, 1>>
    /\ params.valor_parcela = <<0, 1>> \/ params.meses_financiamento <= 0

C12_CreditaAntesDeConsumir ==
    [][pc # "start" =>
         /\ (pc = "for" /\ pc' = "consume") =>
               /\ loc'.energia_injetada =
                     IF RLt(loc'.auto_consumo, loc'.geracao_mensal)
                     THEN RSub(loc'.geracao_mensal, loc'.auto_consumo)
                     ELSE <<0, 1>>
               /\ loc'.consumo_rede =
                     RSub(params.consumo_mensal, loc'.auto_consumo)
               /\ saldo_creditos' = RAdd(saldo_creditos, loc'.energia_injetada)
         /\ pc = "consume" =>
               /\ loc'.energia_compensada =
                     IF RLeq(loc.consumo_rede, saldo_creditos)
                     THEN loc.consumo_rede
                     ELSE saldo_creditos
               /\ saldo_creditos' = RSub(saldo_creditos, loc'.energia_compensada)
               /\ RAdd(loc'.energia_compensada, loc'.energia_comprada_rede)
                     = loc.consumo_rede
               /\ RLeq(<<0, 1>>, loc'.energia_comprada_rede)
               /\ loc'.energia_injetada = loc.energia_injetada
         /\ (pc = "for" /\ pc' # "consume") => saldo_creditos' = saldo_creditos
    ]_vars

(* C12 witness: month 1 has ended having compensated grid demand out of    *)
(* the surplus it injected itself (the ledger was empty before it).        *)
C12_Witness ==
    /\ pc = "for"
    /\ mes = 2
    /\ RLt(<<0, 1>>, loc.energia_injetada)
    /\ RLt(<<0, 1>>, loc.energia_compensada)
    /\ saldo_creditos = RSub(loc.energia_injetada, loc.energia_compensada)

(* C13: in every record the recorded net cash flow is the recorded savings *)
(* minus the recorded installment, maintenance and grid purchase cost.     *)
C13_FluxoDosValoresRegistrados ==
    \A i \in 1..Len(dados) :
        dados[i].FluxoLiquido =
            RSub(RSub(RSub(dados[i].Economia, dados[i].Parcela),
                      dados[i].Manutencao),
                 dados[i].CompraRede)

DiferencaRegistrada(r) ==
    RSub(RSub(RSub(r.Economia, r.Parcela), r.Manutencao), r.CompraRede)

Centavos(n) == <<n, 100>>

(* C13, amended: before rounding, the month's net cash flow is savings     *)
(* (selfConsumed * tariff + compensated * creditPrice) minus installment,  *)
(* maintenance (annual / 12) and grid purchase (purchased * tariff); the   *)
(* record keeps that net value rounded to 2 decimals, beside columns each  *)
(* rounded on its own, so the recorded columns agree to within 2 cents;    *)
(* the cumulative cash flow accumulates the recorded net value.            *)
C13_FluxoAntesDeArredondar ==
    /\ FimDoMes =>
          /\ loc.economia = RAdd(RMul(loc.auto_consumo, tarifa),
                                 RMul(loc.energia_compensada, loc.preco_credito))
          /\ loc.custo_energia_rede = RMul(loc.energia_comprada_rede, tarifa)
          /\ RAdd(RAdd(RAdd(loc.fluxo_liquido, loc.custo_energia_rede),
                       RDivInt(params.custo_manutencao_anual, 12)),
                  dados[mes - 1].Parcela) = loc.economia
          /\ dados[mes - 1].FluxoLiquido = Round(loc.fluxo_liquido, 2)
          /\ dados[mes - 1].Economia = Round(loc.economia, 2)
          /\ dados[mes - 1].CompraRede = Round(loc.custo_energia_rede, 2)
          /\ LET d == RSub(dados[mes - 1].FluxoLiquido,
                           DiferencaRegistrada(dados[mes - 1]))
             IN  RLeq(Centavos(-2), d) /\ RLeq(d, Centavos(2))
    /\ pc = "returned" =>
          \A m \in 1..Len(df) :
             df[m].Acumulado =
                RAdd(IF m = 1 THEN <<0, 1>> ELSE df[m - 1].Acumulado,
                     Round(df[m].FluxoLiquido, 2))

(* C13 witness: a month has ended whose recorded net cash flow is a cent   *)
(* away from the difference of its recorded columns.                       *)
C13_Witness ==
    /\ FimDoMes
    /\ ~ParametrosInvalidos(params)
    /\ dados[mes - 1].FluxoLiquido # DiferencaRegistrada(dados[mes - 1])
    /\ dados[mes - 1].FluxoLiquido = Round(loc.fluxo_liquido, 2)

(* C14: energy is bought only when the ledger is exhausted: a month that   *)
(* buys from the grid ends with balance 0, and a month that ends with a    *)
(* positive balance bought nothing.                                        *)
C14_CompraSoComSaldoEsgotado ==
    FimDoMes =>
        /\ RLt(<<0, 1>>, loc.energia_comprada_rede) => saldo_creditos = <<0, 1>>
        /\ RLt(<<0, 1>>, saldo_creditos) => loc.energia_comprada_rede = <<0, 1>>

(* C14 witness: a month that began with credits banked has ended having    *)
(* used them all and still bought energy.                                  *)
C14_Witness ==
    /\ FimDoMes
    /\ RLt(loc.energia_injetada, loc.energia_compensada)
    /\ RLt(<<0, 1>>, loc.energia_comprada_rede)
    /\ saldo_creditos = <<0, 1>>
====
